---- MODULE Spec2Model ----
(***************************************************************************)
(* A model of src/src/lib.rs: the Win32 window bridge.                     *)
(*                                                                         *)
(* One application thread makes Platforms (Platform::init), creates        *)
(* windows (Window::new), pumps them                                       *)
(* (Window::process_messages) and drops them.  The OS posts notifications  *)
(* to a window's message queue and sends non-queued notifications to the   *)
(* window procedure while the thread is inside PeekMessageA or             *)
(* CreateWindowExA.  window_proc turns a notification into a WindowEvent   *)
(* and sends it on the channel whose Sender the "event_channel" window     *)
(* property points to; the drain loop of process_messages applies the      *)
(* events to the fields of the Window.                                     *)
(*                                                                         *)
(* History variables (seq, calls, applied, wp, and the k and src tags of    *)
(* queue and channel items) record what happened; no action reads them to  *)
(* decide what to do.                                                      *)
(*                                                                         *)
(* Spec is that program; FairSpec adds that the thread inside              *)
(* process_messages keeps running; SwapSpec presents a pixel buffer to a   *)
(* window (Window::swap_buffers).                                          *)
(***************************************************************************)
EXTENDS Integers, Sequences, FiniteSets, TLC

\* ------------------------------------------------------------- bounds
\* Windows created in one run.
MaxWindows == 2
\* Notifications the OS posts or sends in one run (those of CreateWindowExA
\* itself, WM_NCCREATE and WM_CREATE, are not counted).
MaxMsgs == 2
\* Platform::init calls in one run.
MaxInits == 2
\* Platform::init calls in one run of FairSpec.
MaxFairInits == 1
\* Largest width and height of the window a buffer is presented to
\* (SwapSpec).
MaxDim == 3

\* ---------------------------------------------------------- constants
\* Win32 message codes (the arms of the match in window_proc).
WM_CREATE == 1
WM_SIZE == 5
WM_PAINT == 15
WM_CLOSE == 16
WM_NCCREATE == 129
WM_MOUSEMOVE == 512
WM_LBUTTONDOWN == 513
WM_LBUTTONUP == 514
WM_RBUTTONDOWN == 516
WM_RBUTTONUP == 517

\* The null pointer / null property value / HWND(0).
NULL == 0
\* LRESULT(0), the initial value of result in window_proc.
LRESULT0 == 0
\* The address of the CREATESTRUCTA the OS passes with its WM_CREATE (any
\* non-null value).
CsPtr == 7
\* Window::new asks for a 900 x 600 window and starts size at that.
InitWidth == 900
InitHeight == 600

Wid == 1..MaxWindows
\* An OS window is identified with the Window::new call that created it.
Hwnd == 1..MaxWindows
\* Heap addresses a Box<Sender<WindowEvent>> can be allocated at.
Addr == 1..MaxWindows

HandledCodes ==
  {WM_MOUSEMOVE, WM_SIZE, WM_LBUTTONDOWN, WM_LBUTTONUP, WM_RBUTTONDOWN, WM_RBUTTONUP}

\* A raw notification: the window_proc arguments after the handle.  cs is
\* the lpCreateParams of the CREATESTRUCTA lparam points to (WM_CREATE only).
Mk(message, wparam, lparam) ==
  [message |-> message, wparam |-> wparam, lparam |-> lparam, cs |-> NULL]

\* lparam values: 0x00280014, and a negative isize whose bits above bit 31
\* are all set (0xFFFF...FFFF0006).
LParamA == 40 * 65536 + 20
LParamB == 6 - 65536

\* The notifications the OS posts to a message queue in the model: mouse
\* input, a paint request, a close request, a size change another program
\* posts.
Posted ==
  { Mk(WM_MOUSEMOVE, 0, LParamA), Mk(WM_MOUSEMOVE, 1, LParamB),
    Mk(WM_LBUTTONDOWN, 1, LParamA), Mk(WM_LBUTTONUP, 0, LParamA),
    Mk(WM_RBUTTONDOWN, 2, LParamA), Mk(WM_RBUTTONUP, 0, LParamA),
    Mk(WM_PAINT, 1, LParamB), Mk(WM_CLOSE, 0, 0), Mk(WM_SIZE, 0, LParamA) }

\* The notifications the OS sends straight to window_proc in the model: a
\* size change (restored, minimized), and a WM_CREATE with a null lparam.
Sent ==
  { Mk(WM_SIZE, 0, LParamA), Mk(WM_SIZE, 1, 0), Mk(WM_CREATE, 0, NULL) }

\* Client rectangles GetClientRect can report (left = top = 0).
ClientRects == { [right |-> 884, bottom |-> 561], [right |-> 0, bottom |-> 0] }

\* Values DefWindowProcA can return.
DefResults == {0, 1}

VARIABLES
  registered, \* the OS knows the window class CLASS_NAME of this process
  platform,  \* platform[p]: the Platform the p-th Platform::init returned
             \*   (history field class_ok: its RegisterClassA call succeeded)
  open,      \* the HWNDs the OS knows as open
  queue,     \* queue[h]: the posted messages of h, oldest first
  prop,      \* prop[h]: the "event_channel" property of h (NULL if not set)
  rect,      \* rect[h]: the client rectangle of h
  window,    \* window[w]: the Window value made by the w-th Window::new
  chan,      \* chan[w]: the mpsc channel of window w, oldest first
  pc,        \* where the application thread is
  cur,       \* the window the running Window method works on (NULL: none runs)
  crashed,   \* the process died (abort, panic in the callback, fault)
  nwin,      \* Window::new calls so far
  nmsg,      \* notifications issued so far
  seq,       \* history: seq[h] = notifications issued for h so far
  calls,     \* history: calls[h] = every window_proc invocation for h, in order
             \*          (none is ever made for the null handle)
             \*          (bound: the property of h was set when it was made)
  applied,   \* history: applied[w] = every channel item the drain loop of w
             \*          applied, in order
  wp,        \* history: the window_proc invocation the last step made, with
             \*          what it returned and passed on (NoCall: it made none)
  buffer,    \* the pixel buffer the application presents (row-major bytes of
             \*          pixels; used under SwapSpec only)
  surface    \* surface[<<x, y>>]: the pixel the drawing surface of the window
             \*          shows at column x, row y, row 0 at the top (SwapSpec only)

vars == <<registered, platform, open, queue, prop, rect, window, chan, pc, cur, crashed, nwin, nmsg,
          seq, calls, applied, wp, buffer, surface>>

\* ------------------------------------------------------------ Window
\* Mouse::default()
MouseDefault == [pos |-> [x |-> 0, y |-> 0], left |-> FALSE, right |-> FALSE]

\* The fields of Self in Window::new.
NewWindow(handle, addr) ==
  [status |-> "live", handle |-> handle, addr |-> addr, minimized |-> FALSE,
   mouse |-> MouseDefault, size |-> [width |-> InitWidth, height |-> InitHeight]]

NoWindow == [NewWindow(NULL, NULL) EXCEPT !.status = "none"]

Live(w) == window[w].status = "live"
\* The Sender of w is allocated: from Box::pin(tx) until the Window is dropped.
SenderAlive(w) == window[w].status \in {"creating", "live"}

\* The MouseMoved arm building a new Mouse around the position (mutant).
ApplyMouseMoved_NewMouse(win, e) ==
  [win EXCEPT !.mouse = [MouseDefault EXCEPT !.pos = [x |-> e.x, y |-> e.y]]]

\* The MouseMoved arm of the drain loop with y taken from x (mutant).
ApplyMouseMoved_YFromX(win, e) ==
  [win EXCEPT !.mouse.pos.x = e.x, !.mouse.pos.y = e.x]

\* The MouseMoved arm of the drain loop of process_messages.
ApplyMouseMoved(win, e) ==
  [win EXCEPT !.mouse.pos.x = e.x, !.mouse.pos.y = e.y]

\* The WindowResized arm leaving the size alone when the event has no
\* area (mutant).
ApplyWindowResized_SkipsZeroArea(win, e) ==
  IF e.width = 0 \/ e.height = 0 THEN win
  ELSE [win EXCEPT !.size.height = e.height, !.size.width = e.width]

\* The WindowResized arm deriving minimized from the size (mutant).
ApplyWindowResized_SetsMinimized(win, e) ==
  [win EXCEPT !.size.height = e.height, !.size.width = e.width,
              !.minimized = (e.width = 0 \/ e.height = 0)]

\* The WindowResized arm.
ApplyWindowResized(win, e) ==
  [win EXCEPT !.size.height = e.height, !.size.width = e.width]

\* The MouseButtonChanged arm with the Right arms writing left (mutant).
ApplyMouseButtonChanged_RightWritesLeft(win, e) ==
  CASE e.state = "Up" -> [win EXCEPT !.mouse.left = FALSE]
    [] e.state = "Down" -> [win EXCEPT !.mouse.left = TRUE]

\* The MouseButtonChanged arm: the inner match on the button, with guards
\* on the state.
ApplyMouseButtonChanged(win, e) ==
  CASE e.button = "Left" /\ e.state = "Up" -> [win EXCEPT !.mouse.left = FALSE]
    [] e.button = "Left" /\ e.state = "Down" -> [win EXCEPT !.mouse.left = TRUE]
    [] e.button = "Right" /\ e.state = "Up" -> [win EXCEPT !.mouse.right = FALSE]
    [] e.button = "Right" /\ e.state = "Down" -> [win EXCEPT !.mouse.right = TRUE]
    [] OTHER -> win

\* The match of the drain loop of process_messages on one event.
ApplyEvent(win, e) ==
  CASE e.type = "MouseMoved" -> ApplyMouseMoved(win, e)
    [] e.type = "WindowResized" -> ApplyWindowResized(win, e)
    [] e.type = "MouseButtonChanged" -> ApplyMouseButtonChanged(win, e)

\* ------------------------------------------------------------ channel
\* A send that puts the item at the front (mutant).
ChannelSend_AtFront(q, item) == <<item>> \o q

\* Sender::send on an mpsc channel: the item goes to the back.
ChannelSend(q, item) == Append(q, item)
\* Receiver::try_recv on a non-empty channel: the item at the front.
ChannelFront(q) == Head(q)
\* A receive that discards the item behind the one it returns (mutant).
ChannelRest_DropsNext(q) == IF Len(q) > 1 THEN Tail(Tail(q)) ELSE Tail(q)

\* The channel after that try_recv.
ChannelRest(q) == Tail(q)

\* ------------------------------------------------------- window_proc
\* isize::to_le_bytes: the two's complement bytes, least significant first.
\* (lparam is kept within 32 bits here, so bytes 4..7 are the sign extension.)
to_le_bytes(l) ==
  [i \in 0..7 |-> IF i < 4 THEN (l \div (256 ^ i)) % 256
                  ELSE IF l < 0 THEN 255 ELSE 0]

\* The two bytes read as a big-endian u16 (mutant).
transmute_u16_BigEndian(b0, b1) == 256 * b0 + b1

\* transmute::<[u8; 2], u16> on a little-endian target.
transmute_u16(b0, b1) == b0 + 256 * b1

\* The WM_MOUSEMOVE arm: the event made from lparam.
MouseMovedOf(lparam) ==
  LET lparam_bytes == to_le_bytes(lparam)
  IN  [type |-> "MouseMoved",
       x |-> transmute_u16(lparam_bytes[0], lparam_bytes[1]),
       y |-> transmute_u16(lparam_bytes[2], lparam_bytes[3])]

\* GetClientRect into a RECT::default(): the rectangle rc holds for an open
\* window, and the zeroed RECT left alone when the call fails.
GetClientRect(h, rc) ==
  IF h \in open THEN rc[h] ELSE [right |-> 0, bottom |-> 0]

\* The WM_SIZE arm decoding the half-words of lparam (mutant).
WindowResizedOf_FromLParam(h, wparam, lparam, rc) ==
  [type |-> "WindowResized", width |-> lparam % 65536,
                             height |-> (lparam \div 65536) % 65536]

\* The WM_SIZE arm: the event made from the queried rectangle.  right and
\* bottom of a client rectangle are never negative, so `as u32` keeps them.
WindowResizedOf(h, wparam, lparam, rc) ==
  LET r == GetClientRect(h, rc)
  IN  [type |-> "WindowResized", width |-> r.right, height |-> r.bottom]

\* The button arms with WM_LBUTTONUP sending Down (mutant).
ButtonChangedOf_LeftUpSendsDown(message) ==
  CASE message \in {WM_LBUTTONDOWN, WM_LBUTTONUP} ->
         [type |-> "MouseButtonChanged", button |-> "Left", state |-> "Down"]
    [] message = WM_RBUTTONDOWN ->
         [type |-> "MouseButtonChanged", button |-> "Right", state |-> "Down"]
    [] message = WM_RBUTTONUP ->
         [type |-> "MouseButtonChanged", button |-> "Right", state |-> "Up"]

\* The four button arms.
ButtonChangedOf(message) ==
  CASE message = WM_LBUTTONDOWN ->
         [type |-> "MouseButtonChanged", button |-> "Left", state |-> "Down"]
    [] message = WM_LBUTTONUP ->
         [type |-> "MouseButtonChanged", button |-> "Left", state |-> "Up"]
    [] message = WM_RBUTTONDOWN ->
         [type |-> "MouseButtonChanged", button |-> "Right", state |-> "Down"]
    [] message = WM_RBUTTONUP ->
         [type |-> "MouseButtonChanged", button |-> "Right", state |-> "Up"]

\* The event a handled notification is turned into.
EventOf(h, m, rc) ==
  CASE m.message = WM_MOUSEMOVE -> MouseMovedOf(m.lparam)
    [] m.message = WM_SIZE -> WindowResizedOf(h, m.wparam, m.lparam, rc)
    [] OTHER -> ButtonChangedOf(m.message)

\* The windows whose Sender is allocated at address a (at most one).
SenderAt(a) == {w \in Wid : SenderAlive(w) /\ window[w].addr = a}

\* A lookup that ignores the window handle and yields the Sender of the
\* first window that has one (mutant).
get_event_channel_Global(h, ub) ==
  IF prop[h] = NULL \/ {w \in Wid : SenderAlive(w)} = {} THEN [tag |-> "None", w |-> NULL]
  ELSE [tag |-> "Some", w |-> CHOOSE w \in Wid : SenderAlive(w) /\ \A v \in Wid : SenderAlive(v) => w <= v]

\* The closure get_event_channel: GetPropA, then ptr.as_ref().cloned().
\*   None          the property is not set (null pointer)
\*   Some(w)       a clone of the Sender of window w
\*   "crash"/"lost" the pointer dangles (the Window that owned the Sender
\*                 was dropped): undefined behaviour.  ub picks the outcome:
\*                 the process faults, or the read goes through and yields
\*                 whatever Sender now lives at that address, or garbage
\*                 whose send is never seen by any Receiver.
get_event_channel(h, ub) ==
  IF prop[h] = NULL THEN [tag |-> "None", w |-> NULL]
  ELSE LET at == SenderAt(prop[h])
           own == {w \in at : window[w].handle = h}
       IN  IF own # {} THEN [tag |-> "Some", w |-> CHOOSE w \in own : TRUE]
           ELSE IF ub = "crash" THEN [tag |-> "crash", w |-> NULL]
           ELSE IF at # {} THEN [tag |-> "Some", w |-> CHOOSE w \in at : TRUE]
           ELSE [tag |-> "lost", w |-> NULL]

NoFwd == [hwnd |-> NULL, message |-> 0, wparam |-> 0, lparam |-> 0]

\* What window_proc passes to DefWindowProcA in its `_` arm.
DefArgs(h, m) ==
  [hwnd |-> h, message |-> m.message, wparam |-> m.wparam, lparam |-> m.lparam]

\* The `_` arm leaving result at its initial value (mutant).
DefArmResult_NotAssigned(defret) == LRESULT0

\* What window_proc returns after its `_` arm, given DefWindowProcA's result.
DefArmResult(defret) == defret

\* DefWindowProcA destroys the window on WM_CLOSE.
DefDestroys(m) == m.message = WM_CLOSE

\* window_proc(h, m) as the effects of one invocation:
\*   result   the LRESULT returned
\*   fwd      the arguments of the DefWindowProcA call (NoFwd: not called)
\*   to, ev   the channel (window) an event is sent on and the event (to =
\*            NULL: nothing is sent)
\*   setprop  the value SetPropA stores (NULL: the property is left alone)
\*   crash    the process dies in the callback
\*   destroy  the OS destroys the window
\* rc is the client rectangle of every window at the time of the call, ok
\* whether SetPropA succeeds (its result is discarded), ub the outcome of a
\* dangling read, defret what DefWindowProcA returns.
window_proc(h, m, rc, ok, ub, defret) ==
  LET quiet == [result |-> LRESULT0, fwd |-> NoFwd, to |-> NULL, ev |-> NoFwd,
                setprop |-> NULL, crash |-> FALSE, destroy |-> FALSE]
  IN  CASE m.message = WM_CREATE ->
             IF m.lparam # NULL /\ ok THEN [quiet EXCEPT !.setprop = m.cs]
             ELSE quiet
        [] m.message \in HandledCodes ->
             LET c == get_event_channel(h, ub)
             IN  CASE c.tag = "Some" -> [quiet EXCEPT !.to = c.w, !.ev = EventOf(h, m, rc)]
                   [] c.tag = "crash" -> [quiet EXCEPT !.crash = TRUE]
                   [] OTHER -> quiet
        [] OTHER ->
             [quiet EXCEPT !.result = DefArmResult(defret), !.fwd = DefArgs(h, m),
                           !.destroy = DefDestroys(m)]

\* A window_proc that applies the event to the Window it found, as well as
\* sending it (mutant).
WindowsAfter_AppliedInCallback(out) ==
  IF out.to = NULL THEN window
  ELSE [window EXCEPT ![out.to] = ApplyEvent(@, out.ev)]

\* The Window values after one invocation of window_proc: it holds no
\* reference to any Window (only a clone of the Sender), so it writes none.
WindowsAfter(out) == window

\* The history tag of a channel item: the notification it was made from
\* (early: window_proc was called inside CreateWindowExA, before Window::new
\* returned the Window).
Src(h, k, m, queued) ==
  [hwnd |-> h, k |-> k, msg |-> m, queued |-> queued, early |-> pc = "show"]

\* One invocation of window_proc by the OS, for notification number k of h
\* (posted or sent); q is the message queue the invocation starts from.
Invoke(h, m, k, queued, rc, ok, ub, defret, q) ==
  LET out == window_proc(h, m, rc, ok, ub, defret)
  IN  /\ calls' = [calls EXCEPT ![h] = Append(@,
                  [k |-> k, msg |-> m, queued |-> queued, bound |-> prop[h] # NULL])]
      /\ wp' = [hwnd |-> h, k |-> k, msg |-> m, fwd |-> out.fwd,
                defret |-> IF out.fwd = NoFwd THEN 0 ELSE defret,
                result |-> out.result, to |-> out.to, rect |-> rc[h]]
      /\ crashed' = out.crash
      /\ chan' = IF out.to = NULL THEN chan
                 ELSE [chan EXCEPT ![out.to] =
                         ChannelSend(@, [event |-> out.ev, src |-> Src(h, k, m, queued)])]
      /\ prop' = IF out.destroy THEN [prop EXCEPT ![h] = NULL]
                 ELSE IF out.setprop # NULL THEN [prop EXCEPT ![h] = out.setprop]
                 ELSE prop
      /\ open' = IF out.destroy THEN open \ {h} ELSE open
      /\ queue' = IF out.destroy THEN [q EXCEPT ![h] = <<>>] ELSE q
      /\ window' = WindowsAfter(out)

\* The outcomes one invocation can have: whether SetPropA succeeds (read by
\* the WM_CREATE arm only), the outcome of a dangling read (a handled
\* notification of a window whose Sender was freed), DefWindowProcA's result
\* (the `_` arm).
Dangling(h) ==
  prop[h] # NULL /\ {w \in SenderAt(prop[h]) : window[w].handle = h} = {}

Choices(h, m) ==
  (IF m.message = WM_CREATE /\ m.lparam # NULL THEN BOOLEAN ELSE {TRUE})
  \X (IF m.message \in HandledCodes /\ Dangling(h) THEN {"deliver", "crash"}
      ELSE {"deliver"})
  \X (IF m.message \notin HandledCodes \cup {WM_CREATE} THEN DefResults ELSE {0})

\* wp when the last step made no window_proc invocation.
NoCall ==
  [hwnd |-> NULL, k |-> 0, msg |-> Mk(0, 0, 0), fwd |-> NoFwd, defret |-> 0,
   result |-> LRESULT0, to |-> NULL, rect |-> [right |-> 0, bottom |-> 0]]

\* --------------------------------------------------------------- Init
Init ==
  /\ registered = FALSE
  /\ platform = <<>>
  /\ open = {}
  /\ queue = [h \in Hwnd |-> <<>>]
  /\ prop = [h \in Hwnd |-> NULL]
  /\ rect = [h \in Hwnd |-> [right |-> 0, bottom |-> 0]]
  /\ window = [w \in Wid |-> NoWindow]
  /\ chan = [w \in Wid |-> <<>>]
  /\ pc = "idle"
  /\ cur = NULL
  /\ crashed = FALSE
  /\ nwin = 0
  /\ nmsg = 0
  /\ seq = [h \in Hwnd |-> 0]
  /\ calls = [h \in {NULL} \cup Hwnd |-> <<>>]
  /\ applied = [w \in Wid |-> <<>>]
  /\ wp = NoCall
  /\ buffer = <<>>
  /\ surface = <<>>

\* ----------------------------------------------------- Platform::init
\* RegisterClassA: whether it registers the class.  It fails when the class
\* of that name exists already, and when the OS cannot register it (ok is
\* FALSE).
RegisterClassA(ok) == ~registered /\ ok

\* Platform::init: instance_handle(), RegisterClassA with its result
\* discarded, and Self returned.
PlatformInit ==
  /\ pc = "idle" /\ ~crashed /\ Len(platform) < MaxInits
  /\ \E ok \in BOOLEAN :
       LET atom == RegisterClassA(ok)
       IN  /\ registered' = (registered \/ atom)
           /\ platform' = Append(platform, [class_ok |-> atom])
  /\ wp' = NoCall
  /\ UNCHANGED <<buffer, surface, open, queue, prop, rect, window, chan, pc, cur,
                 crashed, nwin, nmsg, seq, calls, applied>>

\* ------------------------------------------------------- Window::new
\* channel(), Box::pin(tx), and the start of CreateWindowExA: the OS makes
\* the window.
NewBegin ==
  /\ pc = "idle" /\ ~crashed /\ nwin < MaxWindows
  /\ platform # <<>> /\ registered
  /\ LET w == nwin + 1
     IN  \E a \in {b \in Addr : b <= w /\ SenderAt(b) = {}}, r \in ClientRects :
           /\ window' = [window EXCEPT ![w] =
                           [NewWindow(w, a) EXCEPT !.status = "creating"]]
           /\ open' = open \cup {w}
           /\ rect' = [rect EXCEPT ![w] = r]
           /\ nwin' = w
           /\ cur' = w
           /\ pc' = "nccreate"
  /\ wp' = NoCall
  /\ UNCHANGED <<registered, platform, buffer, surface, queue, prop, chan, crashed, nmsg, seq, calls, applied>>

\* Window::new when the class is not registered: CreateWindowExA makes no
\* window, calls nothing and returns HWND(0); Self is built around it.
NewFailed ==
  /\ pc = "idle" /\ ~crashed /\ nwin < MaxWindows
  /\ platform # <<>> /\ ~registered
  /\ LET w == nwin + 1
     IN  \E a \in {b \in Addr : b <= w /\ SenderAt(b) = {}} :
           /\ window' = [window EXCEPT ![w] = NewWindow(NULL, a)]
           /\ nwin' = w
  /\ wp' = NoCall
  /\ UNCHANGED <<registered, platform, buffer, surface, open, queue, prop, rect,
                 chan, pc, cur, crashed, nmsg, seq, calls, applied>>

\* CreateWindowExA sends WM_NCCREATE (one of the notifications that precede
\* WM_CREATE), then WM_CREATE with the CREATESTRUCTA carrying the pointer to
\* the pinned Sender.
NewNotify ==
  /\ pc \in {"nccreate", "create"} /\ ~crashed
  /\ LET h == window[cur].handle
         m == IF pc = "nccreate" THEN Mk(WM_NCCREATE, 0, CsPtr)
              ELSE [Mk(WM_CREATE, 0, CsPtr) EXCEPT !.cs = window[cur].addr]
         k == seq[h] + 1
     IN  /\ seq' = [seq EXCEPT ![h] = k]
         /\ \E c \in Choices(h, m) :
              Invoke(h, m, k, FALSE, rect, c[1], c[2], c[3], queue)
  /\ pc' = IF pc = "nccreate" THEN "create" ELSE "show"
  /\ UNCHANGED <<registered, platform, buffer, surface, rect, cur, nwin, nmsg, applied>>

\* CreateWindowExA returns; Self is built; GetDC.
NewReturn ==
  /\ pc = "show" /\ ~crashed
  /\ window' = [window EXCEPT ![cur] = NewWindow(@.handle, @.addr)]
  /\ pc' = "idle"
  /\ cur' = NULL
  /\ wp' = NoCall
  /\ UNCHANGED <<registered, platform, buffer, surface, open, queue, prop, rect, chan, crashed, nwin, nmsg,
                 seq, calls, applied>>

\* ------------------------------------------ Window::process_messages
\* The windows PeekMessageA(_, handle, 0, 0, PM_REMOVE) looks at: the window
\* of that handle, and every window of the thread when the handle is null.
PeekTargets(handle) == IF handle = NULL THEN open ELSE {handle} \cap open

\* A PeekMessageA that waits for a message instead of returning 0 (mutant).
PeekReturnsZero_Waits(handle) == FALSE

\* PeekMessageA returns 0: none of these windows has a message queued.
PeekReturnsZero(handle) == \A h \in PeekTargets(handle) : queue[h] = <<>>

PumpBegin(w) ==
  /\ pc = "idle" /\ ~crashed /\ Live(w)
  /\ pc' = "peek"
  /\ cur' = w
  /\ wp' = NoCall
  /\ UNCHANGED <<registered, platform, buffer, surface, open, queue, prop, rect, window, chan, crashed, nwin, nmsg,
                 seq, calls, applied>>

\* PeekMessageA finds a message of this window: (TranslateMessage leaves
\* the messages of the model alone) DispatchMessageA calls window_proc.
PeekDispatch ==
  /\ pc = "peek" /\ ~crashed
  /\ \E h \in PeekTargets(window[cur].handle) :
         /\ queue[h] # <<>>
         /\ \E c \in Choices(h, Head(queue[h]).msg) :
              Invoke(h, Head(queue[h]).msg, Head(queue[h]).k, TRUE, rect,
                     c[1], c[2], c[3], [queue EXCEPT ![h] = Tail(@)])
  /\ UNCHANGED <<registered, platform, buffer, surface, rect, pc, cur, nwin, nmsg, seq, applied>>

\* PeekMessageA returns 0: nothing is queued for this window (or its handle
\* is no longer a window).
PeekDone ==
  /\ pc = "peek" /\ ~crashed
  /\ PeekReturnsZero(window[cur].handle)
  /\ pc' = "drain"
  /\ wp' = NoCall
  /\ UNCHANGED <<registered, platform, buffer, surface, open, queue, prop, rect, window, chan, cur, crashed, nwin,
                 nmsg, seq, calls, applied>>

\* try_recv returns Ok(event): the event is applied.
DrainApply ==
  /\ pc = "drain" /\ ~crashed
  /\ chan[cur] # <<>>
  /\ LET item == ChannelFront(chan[cur])
     IN  /\ window' = [window EXCEPT ![cur] = ApplyEvent(@, item.event)]
         /\ applied' = [applied EXCEPT ![cur] = Append(@, item)]
  /\ chan' = [chan EXCEPT ![cur] = ChannelRest(@)]
  /\ wp' = NoCall
  /\ UNCHANGED <<registered, platform, buffer, surface, open, queue, prop, rect, pc, cur, crashed, nwin, nmsg, seq,
                 calls>>

\* try_recv returns Err(Empty): process_messages returns.
DrainDone ==
  /\ pc = "drain" /\ ~crashed
  /\ chan[cur] = <<>>
  /\ pc' = "idle"
  /\ cur' = NULL
  /\ wp' = NoCall
  /\ UNCHANGED <<registered, platform, buffer, surface, open, queue, prop, rect, window, chan, crashed, nwin,
                 nmsg, seq, calls, applied>>

\* ------------------------------------------------------------- drop
\* The application drops a Window.  Window has no Drop impl: its Receiver
\* and its boxed Sender are freed, the OS window and its property stay.
Drop(w) ==
  /\ pc = "idle" /\ ~crashed /\ Live(w)
  /\ window' = [window EXCEPT ![w].status = "dropped"]
  /\ chan' = [chan EXCEPT ![w] = <<>>]
  /\ wp' = NoCall
  /\ UNCHANGED <<registered, platform, buffer, surface, open, queue, prop, rect, pc, cur, crashed, nwin, nmsg, seq,
                 calls, applied>>

\* ------------------------------------------------------------ the OS
\* The OS (input, another thread or process) posts a notification to the
\* queue of an open window.
OSPost(h, m) ==
  /\ pc \in {"idle", "peek"} /\ ~crashed /\ nmsg < MaxMsgs
  /\ h \in open
  /\ seq' = [seq EXCEPT ![h] = @ + 1]
  /\ queue' = [queue EXCEPT ![h] = Append(@, [msg |-> m, k |-> seq[h] + 1])]
  /\ nmsg' = nmsg + 1
  /\ wp' = NoCall
  /\ UNCHANGED <<registered, platform, buffer, surface, open, prop, rect, window, chan, pc, cur, crashed, nwin,
                 calls, applied>>

\* The OS sends a non-queued notification: window_proc runs at once, nested
\* in the PeekMessageA or CreateWindowExA call the thread is in.
\* With WM_SIZE the window has just been given the client rectangle r
\* (resized, minimized, restored, shown), whatever the parameters say.
OSSend(h, m, r) ==
  /\ pc \in {"peek", "show"} /\ ~crashed /\ nmsg < MaxMsgs
  /\ h \in open
  /\ m.message # WM_SIZE => r = rect[h]
  /\ seq' = [seq EXCEPT ![h] = @ + 1]
  /\ nmsg' = nmsg + 1
  /\ \E c \in Choices(h, m) :
       Invoke(h, m, seq[h] + 1, FALSE, [rect EXCEPT ![h] = r], c[1], c[2], c[3], queue)
  /\ rect' = [rect EXCEPT ![h] = r]
  /\ UNCHANGED <<registered, platform, buffer, surface, pc, cur, nwin, applied>>

Next ==
  \/ PlatformInit
  \/ NewBegin
  \/ NewFailed
  \/ NewNotify
  \/ NewReturn
  \/ \E w \in Wid : PumpBegin(w)
  \/ PeekDispatch
  \/ PeekDone
  \/ DrainApply
  \/ DrainDone
  \/ \E w \in Wid : Drop(w)
  \/ \E h \in Hwnd, m \in Posted : OSPost(h, m)
  \/ \E h \in Hwnd, m \in Sent, r \in ClientRects : OSSend(h, m, r)

Spec == Init /\ [][Next]_vars

\* ---------------------------------------------- Window::swap_buffers
\* Pixel values (one per 32-bit pixel).
Pixels == {0, 1}

\* biHeight set to the height itself (mutant).
biHeight_Positive(height) == height

\* BITMAPINFOHEADER.biHeight as swap_buffers sets it: -(height as i32).
biHeight(height) == -height

\* StretchDIBits(dc, 0, 0, width, height, 0, 0, width, height, bits, bmi,
\* DIB_RGB_COLORS, SRCCOPY) with bmi.biWidth = biW, bmi.biHeight = biH, 32
\* bits per pixel, BI_RGB: the surface after the call, as a function of
\* <<column, row>> with row 0 at the top.  Source and destination
\* rectangle are the same, so nothing is stretched.  GDI reads a DIB with
\* a negative biHeight as top-down (the first row in memory is the top
\* row) and one with a positive biHeight as bottom-up (the first row in
\* memory is the bottom row).
StretchDIBits(bits, width, height, biW, biH) ==
  [xy \in (0..(width - 1)) \X (0..(height - 1)) |->
     LET rows == IF biH < 0 THEN -biH ELSE biH
         memrow == IF biH < 0 THEN xy[2] ELSE rows - 1 - xy[2]
     IN  bits[memrow * biW + xy[1] + 1]]

\* Window::swap_buffers(buffer): the whole buffer is drawn with the size
\* the Window holds.
SwapBuffers(w) ==
  /\ pc = "idle" /\ ~crashed /\ Live(w)
  /\ LET width == window[w].size.width
         height == window[w].size.height
     IN  /\ Len(buffer) = width * height
         /\ surface' = StretchDIBits(buffer, width, height, width, biHeight(height))
  /\ UNCHANGED <<registered, platform, open, queue, prop, rect, window, chan,
                 pc, cur, crashed, nwin, nmsg, seq, calls, applied, wp, buffer>>

\* One window, created and resized to width x height by the events it has
\* applied, and a buffer of width * height pixels to present (the
\* histories start here).
InitSwap ==
  /\ registered = TRUE
  /\ platform = <<[class_ok |-> TRUE]>>
  /\ open = {1}
  /\ queue = [h \in Hwnd |-> <<>>]
  /\ prop = [h \in Hwnd |-> IF h = 1 THEN 1 ELSE NULL]
  /\ \E width \in 0..MaxDim, height \in 0..MaxDim :
       /\ rect = [h \in Hwnd |-> IF h = 1 THEN [right |-> width, bottom |-> height]
                                 ELSE [right |-> 0, bottom |-> 0]]
       /\ window = [w \in Wid |->
                      IF w = 1 THEN [NewWindow(1, 1) EXCEPT !.size.width = width,
                                                           !.size.height = height]
                      ELSE NoWindow]
       /\ buffer \in [1..(width * height) -> Pixels]
  /\ chan = [w \in Wid |-> <<>>]
  /\ pc = "idle"
  /\ cur = NULL
  /\ crashed = FALSE
  /\ nwin = 1
  /\ nmsg = 0
  /\ seq = [h \in Hwnd |-> 0]
  /\ calls = [h \in {NULL} \cup Hwnd |-> <<>>]
  /\ applied = [w \in Wid |-> <<>>]
  /\ wp = NoCall
  /\ surface = <<>>

NextSwap == \E w \in Wid : SwapBuffers(w)

SwapSpec == InitSwap /\ [][NextSwap]_vars

\* The steps of the thread inside process_messages.  The thread that called
\* process_messages keeps running: it makes no call that waits (PeekMessageA
\* and try_recv return at once), so a step that stays possible is taken.
PumpStep == PeekDispatch \/ PeekDone \/ DrainApply \/ DrainDone

\* The steps of Next in a run with at most MaxFairInits Platform::init calls.
FairNext ==
  \/ PlatformInit /\ Len(platform') <= MaxFairInits
  \/ NewBegin
  \/ NewFailed
  \/ NewNotify
  \/ NewReturn
  \/ \E w \in Wid : PumpBegin(w)
  \/ PeekDispatch
  \/ PeekDone
  \/ DrainApply
  \/ DrainDone
  \/ \E w \in Wid : Drop(w)
  \/ \E h \in Hwnd, m \in Posted : OSPost(h, m)
  \/ \E h \in Hwnd, m \in Sent, r \in ClientRects : OSSend(h, m, r)

FairSpec == Init /\ [][FairNext]_vars /\ WF_vars(PumpStep)

\* ============================================================ claims
\* The events of a sequence of channel items.
IsMoved(item) == item.event.type = "MouseMoved"
IsLeft(item) == item.event.type = "MouseButtonChanged" /\ item.event.button = "Left"
IsRight(item) == item.event.type = "MouseButtonChanged" /\ item.event.button = "Right"
LastOf(s) == s[Len(s)]

\* C1: for every sequence of events the drain loop has applied to a window
\* since it was created, mouse.pos is the (x, y) of the last MouseMoved
\* event applied, and (0, 0) if none was.
C1_MousePosIsLastMouseMoved ==
  \A w \in Wid : Live(w) =>
    LET mv == SelectSeq(applied[w], IsMoved)
    IN  window[w].mouse.pos =
          IF mv = <<>> THEN [x |-> 0, y |-> 0]
          ELSE [x |-> LastOf(mv).event.x, y |-> LastOf(mv).event.y]

\* C1 witness: two different MouseMoved events were applied to a window.
C1_Witness ==
  \E w \in Wid :
    /\ Live(w)
    /\ Len(applied[w]) = 2
    /\ IsMoved(applied[w][1]) /\ IsMoved(applied[w][2])
    /\ applied[w][1].event # applied[w][2].event
    /\ window[w].mouse.pos.x # window[w].mouse.pos.y

\* C2: mouse.left is true exactly when the last Left event applied was Down
\* (false if no Left event was applied), whatever Right events were
\* applied; mouse.right likewise depends on the last Right event only.
C2_ButtonFlagsFollowOwnButton ==
  \A w \in Wid : Live(w) =>
    LET l == SelectSeq(applied[w], IsLeft)
        r == SelectSeq(applied[w], IsRight)
    IN  /\ window[w].mouse.left = (l # <<>> /\ LastOf(l).event.state = "Down")
        /\ window[w].mouse.right = (r # <<>> /\ LastOf(r).event.state = "Down")

\* C2 witness: Left Down, then a Right event, were applied: left is still
\* set and right is what the Right event said.
C2_Witness ==
  \E w \in Wid :
    /\ Live(w)
    /\ Len(applied[w]) = 2
    /\ IsLeft(applied[w][1]) /\ applied[w][1].event.state = "Down"
    /\ IsRight(applied[w][2]) /\ applied[w][2].event.state = "Up"
    /\ window[w].mouse.left /\ ~window[w].mouse.right

\* The posted notifications of h that window_proc was invoked for, in the
\* order of the invocations, and those among them that have an arm of
\* their own and found the property of h set.
PostedCalls(h) == SelectSeq(calls[h], LAMBDA c : c.queued)
PostedEventCalls(h) ==
  SelectSeq(calls[h], LAMBDA c : c.queued /\ c.bound /\ c.msg.message \in HandledCodes)

\* The items window w has applied or still holds in its channel, in that
\* order, that were made from posted notifications of its own OS window.
OwnPostedItems(w) ==
  SelectSeq(applied[w] \o chan[w],
            LAMBDA it : it.src.queued /\ it.src.hwnd = window[w].handle)

Increasing(ks) == \A i, j \in DOMAIN ks : i < j => ks[i] < ks[j]

\* C3: for every window, the posted notifications are dispatched in the
\* order the OS enqueued them, each one that has an event yields exactly one
\* item, the items enter the channel in the order of the dispatches and
\* are applied in that order: the items applied, followed by those in the
\* channel, are the dispatched notifications, in order, none missing, none
\* merged, none twice.
C3_EventsAppliedInEnqueueOrder ==
  \A w \in Wid : Live(w) =>
    LET h == window[w].handle
        items == OwnPostedItems(w)
        disp == PostedEventCalls(h)
        pend == IF h \in open THEN queue[h] ELSE <<>>
    IN  /\ [i \in DOMAIN items |-> <<items[i].src.k, items[i].src.msg>>]
             = [i \in DOMAIN disp |-> <<disp[i].k, disp[i].msg>>]
        /\ Increasing([i \in DOMAIN PostedCalls(h) |-> PostedCalls(h)[i].k]
                      \o [i \in DOMAIN pend |-> pend[i].k])

\* C3 witness: two posted notifications of a window were dispatched and
\* their events applied, the one enqueued first applied first.
C3_Witness ==
  \E w \in Wid :
    /\ Live(w) /\ pc = "idle"
    /\ Len(applied[w]) = 2 /\ chan[w] = <<>>
    /\ applied[w][1].src.queued /\ applied[w][2].src.queued
    /\ applied[w][1].src.k < applied[w][2].src.k
    /\ applied[w][1].src.msg.message = WM_MOUSEMOVE
    /\ applied[w][2].src.msg.message = WM_LBUTTONDOWN

\* The left-button notifications window_proc was invoked with for h.
LeftCalls(h) ==
  SelectSeq(calls[h], LAMBDA c : c.msg.message \in {WM_LBUTTONDOWN, WM_LBUTTONUP})

\* C4: with one window created and its event channel bound by WM_CREATE,
\* whenever the application can sample its state (no Window method is
\* running) and the channel is drained,
\* mouse.left is true exactly when the last left-button notification
\* dispatched was WM_LBUTTONDOWN: true between a WM_LBUTTONDOWN and the
\* WM_LBUTTONUP that follows it, false once both were dispatched and drained.
C4_LeftDownThenUpEndToEnd ==
  LET lc == LeftCalls(window[1].handle)
  IN  (nwin = 1 /\ Live(1) /\ pc = "idle" /\ chan[1] = <<>>
         /\ \A i \in DOMAIN lc : lc[i].bound) =>
        window[1].mouse.left = (lc # <<>> /\ LastOf(lc).msg.message = WM_LBUTTONDOWN)

\* C4 witness: WM_LBUTTONDOWN then WM_LBUTTONUP were queued, dispatched and
\* drained; left is false.
C4_Witness ==
  /\ nwin = 1 /\ Live(1) /\ pc = "idle" /\ chan[1] = <<>>
  /\ Len(LeftCalls(1)) = 2
  /\ LeftCalls(1)[1].msg.message = WM_LBUTTONDOWN /\ LeftCalls(1)[1].queued
  /\ LeftCalls(1)[2].msg.message = WM_LBUTTONUP /\ LeftCalls(1)[2].queued
  /\ Len(applied[1]) = 2
  /\ ~window[1].mouse.left

\* The items of every channel, applied or not.
AllItems == UNION {{(applied[w] \o chan[w])[i] : i \in DOMAIN (applied[w] \o chan[w])} : w \in Wid}

\* C5: the event made from a WM_MOUSEMOVE has x = lparam mod 2^16 and
\* y = (lparam div 2^16) mod 2^16, both within 0..65535; lparam =
\* 0x00280014 gives x = 20, y = 40.
C5_MouseMovedHalfWords ==
  \A it \in AllItems : it.src.msg.message = WM_MOUSEMOVE =>
    LET l == it.src.msg.lparam
    IN  /\ it.event = [type |-> "MouseMoved", x |-> l % 65536,
                                              y |-> (l \div 65536) % 65536]
        /\ it.event.x \in 0..65535 /\ it.event.y \in 0..65535
        /\ l = 2621460 => it.event.x = 20 /\ it.event.y = 40

\* C5 witness: events were made from lparam = 0x00280014 and from a
\* negative lparam (all bits above bit 31 set).
C5_Witness ==
  /\ \E it \in AllItems :
       it.src.msg.lparam = 2621460 /\ it.event.type = "MouseMoved" /\ it.event.x = 20
  /\ \E it \in AllItems :
       it.src.msg.lparam < 0 /\ it.event.type = "MouseMoved" /\ it.event.y = 65535

\* The step is an invocation of window_proc with a code that has no arm.
OtherCodeCall == wp'.hwnd # NULL /\ wp'.msg.message \notin HandledCodes \cup {WM_CREATE}

\* C6: an invocation with a code other than CREATE, MOUSEMOVE, SIZE and
\* the four button codes calls DefWindowProcA with the same handle, code
\* and parameters, returns what it returned, sends no event and changes no
\* Window.
C6_OtherCodesForwarded ==
  [][OtherCodeCall =>
       /\ wp'.fwd = [hwnd |-> wp'.hwnd, message |-> wp'.msg.message,
                     wparam |-> wp'.msg.wparam, lparam |-> wp'.msg.lparam]
       /\ wp'.result = wp'.defret
       /\ wp'.to = NULL /\ chan' = chan
       /\ window' = window]_vars

\* C6 witness: WM_PAINT with non-zero parameters was forwarded and the
\* non-zero result of DefWindowProcA returned.
C6_Witness ==
  /\ wp.msg = Mk(WM_PAINT, 1, LParamB)
  /\ wp.fwd.wparam = 1 /\ wp.fwd.lparam = LParamB
  /\ wp.defret = 1 /\ wp.result = 1

\* C7 (as claimed): a handled notification for a window whose property is
\* not set does not end the process and is passed to DefWindowProcA.
C7_UnregisteredForwarded ==
  (wp.hwnd # NULL /\ wp.msg.message \in HandledCodes /\ prop[wp.hwnd] = NULL) =>
    /\ ~crashed
    /\ wp.fwd = [hwnd |-> wp.hwnd, message |-> wp.msg.message,
                 wparam |-> wp.msg.wparam, lparam |-> wp.msg.lparam]

\* The items window w has applied or still holds that were made from
\* notifications of the OS window h.
ItemsFrom(w, h) == SelectSeq(applied[w] \o chan[w], LAMBDA it : it.src.hwnd = h)

\* The invocations for h that have an event and found the property set.
EventCalls(h) ==
  SelectSeq(calls[h], LAMBDA c : c.bound /\ c.msg.message \in HandledCodes)

\* C8: for live windows a and b, no notification addressed to a yields an
\* item on the channel of b or is applied to b; every notification addressed
\* to a that has an event yields an item of a; and where process_messages
\* of a returns (its channel is empty) all of them have been applied to a.
C8_NotificationsReachOwnWindowOnly ==
  \A a \in Wid : Live(a) =>
    LET h == window[a].handle
        own == ItemsFrom(a, h)
    IN  /\ \A b \in Wid \ {a} : SenderAlive(b) => ItemsFrom(b, h) = <<>>
        /\ [i \in DOMAIN own |-> <<own[i].src.k, own[i].src.msg>>]
             = [i \in DOMAIN EventCalls(h) |-> <<EventCalls(h)[i].k, EventCalls(h)[i].msg>>]
        /\ chan[a] = <<>> => Len(SelectSeq(applied[a], LAMBDA it : it.src.hwnd = h))
                                = Len(EventCalls(h))

\* C8 witness: two live windows, each has applied the event of a
\* notification of its own and nothing else.
C8_Witness ==
  /\ pc = "idle" /\ Live(1) /\ Live(2)
  /\ Len(applied[1]) = 1 /\ applied[1][1].src.hwnd = window[1].handle
  /\ Len(applied[2]) = 1 /\ applied[2][1].src.hwnd = window[2].handle
  /\ window[1].mouse # window[2].mouse

\* The live entries of an OS window: the Window values that own state and
\* a channel for it.
Entries(h) == {w \in Wid : Live(w) /\ window[w].handle = h}

\* C9 (as claimed): every open OS window whose creation has completed has
\* exactly one live entry, and no closed window has one.
C9_RegistryInvariant ==
  \A h \in Hwnd :
    (seq[h] > 0 /\ ~(pc \in {"nccreate", "create", "show"} /\ cur = h)) =>
      IF h \in open THEN Cardinality(Entries(h)) = 1 ELSE Entries(h) = {}

\* C10: the WindowResized event made for a WM_SIZE carries right and bottom
\* of the client rectangle the window has when window_proc is invoked,
\* whatever wparam and lparam are.
C10_ResizedCarriesClientRect ==
  (wp.hwnd # NULL /\ wp.msg.message = WM_SIZE /\ wp.to # NULL) =>
    LastOf(chan[wp.to]).event =
      [type |-> "WindowResized", width |-> rect[wp.hwnd].right,
                                 height |-> rect[wp.hwnd].bottom]

\* C10 witness: a posted WM_SIZE whose lparam says 20 x 40 was dispatched
\* after the window had been given another rectangle, and the event
\* carries that rectangle.
C10_Witness ==
  /\ wp.hwnd # NULL /\ wp.to # NULL
  /\ wp.msg = Mk(WM_SIZE, 0, LParamA)
  /\ LastOf(chan[wp.to]).src.queued
  /\ LastOf(chan[wp.to]).event.type = "WindowResized"
  /\ LastOf(chan[wp.to]).event.width = 884
  /\ LastOf(chan[wp.to]).event.height = 561

\* C11: a process_messages call that has started returns (or the process
\* has died in a callback): however the OS interleaves its at most MaxMsgs
\* notifications, the PeekMessageA loop ends once nothing more is queued
\* for the window, without waiting for a message, the drain loop ends once
\* the channel is empty, and where the PeekMessageA loop has ended no
\* message is queued for the window.
C11_PumpReturns ==
  /\ [](pc = "drain" => \A h \in open :
          (window[cur].handle \in {NULL, h}) => queue[h] = <<>>)
  /\ (pc = "peek") ~> (pc = "idle" \/ crashed)

\* C11 witness: a process_messages call that dispatched two queued
\* notifications and applied their events has returned.
C11_Witness ==
  \E w \in Wid :
    /\ Live(w) /\ pc = "idle" /\ window[w].handle # NULL
    /\ Len(PostedCalls(window[w].handle)) = 2
    /\ Len(applied[w]) = 2 /\ chan[w] = <<>>
    /\ queue[window[w].handle] = <<>>

\* C12 (as claimed): a Platform value exists only if the window class got
\* registered, and no Window value comes out of a Platform whose class is
\* not registered (every Window made has a window behind its handle).
C12_NoPartialPlatform ==
  /\ platform # <<>> => registered
  /\ \A w \in Wid : window[w].status # "none" => window[w].handle # NULL

\* The Platform::init calls whose RegisterClassA call registered the class.
Registrations == {p \in DOMAIN platform : platform[p].class_ok}

\* C13 (as claimed): once Platform::init has been called, however often,
\* the window class has been registered exactly once.
C13_ClassRegisteredExactlyOnce ==
  platform # <<>> => Cardinality(Registrations) = 1

\* The size the presented window holds, and the pixel of the buffer at
\* column x of source row r (row-major, width pixels per row).
SwapWidth == window[1].size.width
SwapHeight == window[1].size.height
BufferAt(x, r) == buffer[r * SwapWidth + x + 1]
Presented == DOMAIN surface # {}

\* C14 (as claimed): once a buffer has been presented, source row r is
\* shown at destination row height-1-r, for every row r: source row 0 is
\* at the bottom.
C14_RowsFlipped ==
  Presented =>
    \A x \in 0..(SwapWidth - 1), r \in 0..(SwapHeight - 1) :
      surface[<<x, SwapHeight - 1 - r>>] = BufferAt(x, r)

\* C14 (amended): once a buffer has been presented, the surface holds the
\* full width x height buffer with source row r shown at destination row r,
\* for every row r: source row 0 is at the top.
C14_RowsTopDown ==
  Presented =>
    /\ DOMAIN surface = (0..(SwapWidth - 1)) \X (0..(SwapHeight - 1))
    /\ \A x \in 0..(SwapWidth - 1), r \in 0..(SwapHeight - 1) :
         surface[<<x, r>>] = BufferAt(x, r)

\* C14 witness: a buffer of three rows whose first and last row differ was
\* presented, and the first row is at the top.
C14_Witness ==
  /\ Presented /\ SwapHeight = 3 /\ SwapWidth = 2
  /\ BufferAt(0, 0) # BufferAt(0, 2)
  /\ surface[<<0, 0>>] = BufferAt(0, 0)
  /\ surface[<<0, 2>>] = BufferAt(0, 2)

\* The fields of Window w the application reads.
Fields(w) ==
  [mouse |-> window[w].mouse, size |-> window[w].size,
   minimized |-> window[w].minimized]

\* C15: a step that applies an event to a Window changes the fields of
\* that event only: MouseMoved mouse.pos, MouseButtonChanged(Left, _)
\* mouse.left, MouseButtonChanged(Right, _) mouse.right, WindowResized
\* size; every other field of the Window keeps its value, and no other
\* Window changes.
C15_EventsChangeOwnFieldsOnly ==
  [][\A w \in Wid : applied'[w] # applied[w] =>
       LET it == LastOf(applied'[w])
           old == window[w]
           new == window'[w]
       IN  /\ IsMoved(it) => new = [old EXCEPT !.mouse.pos = new.mouse.pos]
           /\ IsLeft(it) => new = [old EXCEPT !.mouse.left = new.mouse.left]
           /\ IsRight(it) => new = [old EXCEPT !.mouse.right = new.mouse.right]
           /\ it.event.type = "WindowResized" => new = [old EXCEPT !.size = new.size]
           /\ \A v \in Wid \ {w} : window'[v] = window[v]]_vars

\* C15 witness: Left Down, then a MouseMoved were applied: the position
\* is the event's and left is still set.
C15_Witness ==
  \E w \in Wid :
    /\ Live(w) /\ Len(applied[w]) = 2
    /\ IsLeft(applied[w][1]) /\ applied[w][1].event.state = "Down"
    /\ IsMoved(applied[w][2])
    /\ window[w].mouse.left /\ window[w].mouse.pos = [x |-> 20, y |-> 40]

\* The WindowResized events applied to w.
ResizedApplied(w) == SelectSeq(applied[w], LAMBDA it : it.event.type = "WindowResized")

\* C16: a WM_SIZE invocation for a window whose channel is bound and whose
\* client rectangle has no area sends a WindowResized with that zero
\* size; and the size of a Window is the width and height of the last
\* WindowResized applied to it, zero or not, with minimized not set.
C16_ZeroAreaStillResized ==
  /\ (/\ wp.hwnd # NULL /\ wp.msg.message = WM_SIZE
      /\ prop[wp.hwnd] # NULL /\ ~Dangling(wp.hwnd)
      /\ wp.rect.right = 0 \/ wp.rect.bottom = 0) =>
       /\ wp.to # NULL
       /\ LastOf(chan[wp.to]).src.k = wp.k
       /\ LastOf(chan[wp.to]).event =
            [type |-> "WindowResized", width |-> wp.rect.right,
                                       height |-> wp.rect.bottom]
  /\ \A w \in Wid : (Live(w) /\ ResizedApplied(w) # <<>>) =>
       /\ window[w].size.width = LastOf(ResizedApplied(w)).event.width
       /\ window[w].size.height = LastOf(ResizedApplied(w)).event.height
       /\ ~window[w].minimized

\* C16 witness: the last event applied to a window is a WindowResized
\* with zero width and height; its size is 0 x 0.
C16_Witness ==
  \E w \in Wid :
    /\ Live(w) /\ applied[w] # <<>>
    /\ LastOf(applied[w]).event = [type |-> "WindowResized", width |-> 0, height |-> 0]
    /\ LastOf(applied[w]).src.msg.message = WM_SIZE
    /\ window[w].size = [width |-> 0, height |-> 0]

\* C17 (as claimed): whenever window_proc reads the "event_channel"
\* property of a window in a handled arm and finds it set, the Sender it
\* points to is the allocated Sender of the Window of that window.
C17_SenderAliveWhenDereferenced ==
  (wp.hwnd # NULL /\ wp.msg.message \in HandledCodes /\ prop[wp.hwnd] # NULL) =>
    \E w \in Wid : /\ SenderAlive(w)
                   /\ window[w].handle = wp.hwnd
                   /\ window[w].addr = prop[wp.hwnd]

\* No two items of the sequence were made from the same notification.
NoDuplicates(items) ==
  \A i, j \in DOMAIN items :
    (items[i].src.hwnd = items[j].src.hwnd /\ items[i].src.k = items[j].src.k) => i = j

\* C18: (a) an invocation with a handled code for a window whose property
\* points to the allocated Sender of its Window adds exactly one item, made
\* from that notification, to the channel of that Window and none to any
\* other; (b) a step that applies an event applies the item at the front
\* of the channel and removes it, and no notification has two items among
\* those applied and those in the channel; (c) where process_messages
\* returns the channel is empty and every such invocation for the window so
\* far, those made inside CreateWindowExA included, has had its event
\* applied.
C18_NoLossNoDuplication ==
  [][/\ \A h \in Hwnd :
          (/\ wp'.hwnd = h /\ wp'.msg.message \in HandledCodes
           /\ prop[h] # NULL /\ ~Dangling(h)) =>
            \E w \in Wid :
              /\ SenderAlive(w) /\ window[w].handle = h
              /\ Len(chan'[w]) = Len(chan[w]) + 1
              /\ LastOf(chan'[w]).src.hwnd = h /\ LastOf(chan'[w]).src.k = wp'.k
              /\ \A v \in Wid \ {w} : chan'[v] = chan[v]
     /\ \A w \in Wid :
          /\ applied'[w] # applied[w] =>
               /\ chan[w] # <<>>
               /\ applied'[w] = Append(applied[w], Head(chan[w]))
               /\ chan'[w] = Tail(chan[w])
          /\ SenderAlive(w) => NoDuplicates(applied'[w] \o chan'[w])
     /\ (pc = "drain" /\ pc' = "idle") =>
          /\ chan'[cur] = <<>>
          /\ Len(SelectSeq(applied'[cur], LAMBDA it : it.src.hwnd = window[cur].handle))
               = Len(EventCalls(window[cur].handle))]_vars

\* C18 witness: process_messages has returned having applied an event
\* sent inside CreateWindowExA and then the event of a posted notification.
C18_Witness ==
  \E w \in Wid :
    /\ Live(w) /\ pc = "idle" /\ chan[w] = <<>>
    /\ Len(applied[w]) = 2
    /\ applied[w][1].src.early /\ ~applied[w][1].src.queued
    /\ applied[w][2].src.queued

\* C19: no invocation of window_proc changes the mouse, size or minimized
\* field of any Window; these fields of a Window change only in a step of
\* its own process_messages call that applies one event.
C19_StateChangesOnlyAtOwnPump ==
  [][\A w \in Wid :
       LET old == Fields(w)
           new == [mouse |-> window'[w].mouse, size |-> window'[w].size,
                   minimized |-> window'[w].minimized]
       IN  /\ wp'.hwnd # NULL => new = old
           /\ new # old => /\ pc = "drain" /\ cur = w
                           /\ Len(applied'[w]) = Len(applied[w]) + 1]_vars

\* C19 witness: inside the process_messages call of one window the OS has
\* sent a WM_SIZE to another; its event is in the channel of that other
\* Window, whose size is still the initial one.
C19_Witness ==
  /\ wp.hwnd # NULL /\ wp.to # NULL /\ wp.msg.message = WM_SIZE
  /\ pc = "peek" /\ cur # wp.to /\ Live(wp.to)
  /\ LastOf(chan[wp.to]).event.width = 884
  /\ window[wp.to].size = [width |-> InitWidth, height |-> InitHeight]

\* C20: the minimized flag of every Window is false.
C20_MinimizedAlwaysFalse ==
  \A w \in Wid : ~window[w].minimized

\* C20 witness: a WM_SIZE with wparam 1 (minimized) and a client rectangle
\* of 0 x 0 was applied to a window; minimized is false.
C20_Witness ==
  \E w \in Wid :
    /\ Live(w) /\ applied[w] # <<>>
    /\ LastOf(applied[w]).src.msg = Mk(WM_SIZE, 1, 0)
    /\ window[w].size.width = 0 /\ window[w].size.height = 0
    /\ ~window[w].minimized

====
